---- MODULE Spec2Model ----
(***************************************************************************)
(* Model of the button/LED firmware: the startup path of `run`, the Wi-Fi  *)
(* connect task, the network runner, the address waiter `get_ip`, the      *)
(* button task, the LED task, the NOTIFY_LED signal and the pool of HTTP   *)
(* workers with the /on and /off handlers.                                 *)
(*                                                                         *)
(* Scheduling: one cooperative executor.  An action is the code a task     *)
(* runs between two suspension points (.await that returns Pending).       *)
(* While `run` is between suspension points no spawned task runs.          *)
(*                                                                         *)
(* Timers: press_button, change_led and the two handlers all sleep         *)
(* MILLISECONDS_TO_WAIT, so these timers expire in the order in which they *)
(* were created.  `timers` is that order.  A task made runnable by         *)
(* NOTIFY_LED.signal is polled before any timer created after the signal   *)
(* expires; it is entered in the same queue with kind "ready".             *)
(***************************************************************************)
EXTENDS Integers, Sequences, FiniteSets, TLC

\* ---------------------------------------------------------------- bounds
\* Largest build-time WEB_TASK_POOL_SIZE explored (the firmware builds 8).
MaxPool == 2
\* Posts to NOTIFY_LED explored in one behaviour.
MaxPosts == 3

\* ------------------------------------------------------------ data model
None == "None"
LedInput == {"On", "Off", "Button"}
Last(s) == s[Len(s)]

\* The configuration strings of DeviceConfig: empty (the default) or set.
ConfigStrings == {"", "x"}

\* Task names, as the spawner sees them.
T_connect == <<"connect", 0>>
T_net == <<"net_task", 0>>
T_button == <<"press_button", 0>>
T_led == <<"change_led", 0>>
T_web(i) == <<"web_task", i>>
\* No task at all.
NoTask == <<None, 0>>

VARIABLES
    ssid, password,   \* DEVICE_CONFIG
    pool,             \* WEB_TASK_POOL_SIZE of run::<N>
    run_pc,           \* position of `run` (and of get_ip inside it)
    spawned,          \* tasks handed to the spawner, in spawn order
    id,               \* loop variable of run_server
    wifi_state,       \* esp_wifi::wifi::wifi_state(): "Invalid", "StaStarted", "StaConnected", "StaDisconnected"
    disc_event,       \* WifiEvent::StaDisconnected is latched
    connect_pc,       \* position of the connect task
    link_up,          \* stack.is_link_up()
    config_v4,        \* stack.config_v4().is_some()
    NOTIFY_LED,       \* the signal: [val |-> None or a LedInput, id |-> post number]
    led,              \* level of GPIO8: "Unconfigured", "High", "Low"
    btn_pc,           \* press_button: "off", "wait_edge", "sleep"
    led_pc,           \* change_led: "off", "wait", "sleep"
    wk,               \* per worker: "off", "accept", "serve", "settle"
    timers,           \* pending wake-ups, oldest first: <<task, "timer" | "ready">>
    posted,           \* history: every intent posted, in order
    pend_at,          \* history: for each post, the post it found pending (0: none)
    level_at,         \* history: for each post, the pin level when it was posted
    applied,          \* history: what change_led took and did, in order
    leased,           \* history: a DHCP lease was granted at least once
    seen,             \* history: what get_ip observed, in order
    connect_timer,    \* seconds of the Timer the connect task sleeps on (0: none)
    owed_backoff,     \* history: a disconnect happened and no 5 s wait has ended since
    pend_by,          \* history: the task that posted the pending intent (NoTask: none)
    last_req          \* history: the last request or failure on a connection

vars == <<ssid, password, pool, run_pc, spawned, id, wifi_state, disc_event,
          connect_pc, link_up, config_v4, NOTIFY_LED, led, btn_pc, led_pc, wk,
          timers, posted, pend_at, level_at, applied, leased, seen,
          connect_timer, owed_backoff, pend_by, last_req>>

startupVars == <<ssid, password, pool, run_pc, spawned, id, seen>>
wifiVars == <<wifi_state, disc_event, connect_pc, connect_timer, owed_backoff>>
netVars == <<link_up, config_v4, leased>>
httpVars == <<last_req>>
ledVars == <<NOTIFY_LED, led, led_pc, applied, pend_by>>
postVars == <<posted, pend_at, level_at>>

\* Number of HTTP workers run_server starts: WEB_TASK_POOL_SIZE.max(1).
Workers == IF pool > 1 THEN pool ELSE 1
\* The ids run_server hands to the workers: 0 .. WEB_TASK_POOL_SIZE.max(1) - 1.
WorkerIds == 0 .. (Workers - 1)

Spawned(t) == \E i \in 1 .. Len(spawned) : spawned[i] = t

\* `run` is suspended in an .await (or has returned): spawned tasks may run.
Suspended == run_pc \in {"link_sleep", "ip_sleep", "done"}

\* The state when `run` is entered, for a build with a pool size in `pools`.
InitWith(pools) ==
    /\ ssid \in ConfigStrings
    /\ password \in ConfigStrings
    /\ pool \in pools
    /\ run_pc = "assert_ssid"
    /\ spawned = <<>>
    /\ id = 0
    /\ wifi_state = "Invalid"
    /\ disc_event = FALSE
    /\ connect_pc = "off"
    /\ link_up = FALSE
    /\ config_v4 = FALSE
    /\ NOTIFY_LED = [val |-> None, id |-> 0]
    /\ led = "Unconfigured"
    /\ btn_pc = "off"
    /\ led_pc = "off"
    /\ wk = [w \in WorkerIds |-> "off"]
    /\ timers = <<>>
    /\ posted = <<>>
    /\ pend_at = <<>>
    /\ level_at = <<>>
    /\ applied = <<>>
    /\ leased = FALSE
    /\ seen = <<>>
    /\ connect_timer = 0
    /\ owed_backoff = FALSE
    /\ pend_by = NoTask
    /\ last_req = [method |-> None, path |-> None, status |-> 0, failure |-> None]

Init == InitWith(0 .. MaxPool)

\* ------------------------------------------------------------ run: startup
\* assert!(!device_config.ssid.is_empty()): a panic halts the firmware.
RunAssertSsid ==
    /\ run_pc = "assert_ssid"
    /\ run_pc' = IF ssid = "" THEN "panicked" ELSE "assert_password"
    /\ UNCHANGED <<httpVars, ssid, password, pool, spawned, id, seen, wifiVars, netVars,
                   ledVars, postVars, btn_pc, wk, timers>>

password_ok_mut(p) == TRUE
\* !device_config.password.is_empty()
password_ok(p) == p # ""

RunAssertPassword ==
    /\ run_pc = "assert_password"
    /\ run_pc' = IF password_ok(password) THEN "spawn_connect" ELSE "panicked"
    /\ UNCHANGED <<httpVars, ssid, password, pool, spawned, id, seen, wifiVars, netVars,
                   ledVars, postVars, btn_pc, wk, timers>>

\* spawner.spawn(connect(wifi_controller))
RunSpawnConnect ==
    /\ run_pc = "spawn_connect"
    /\ spawned' = Append(spawned, T_connect)
    /\ connect_pc' = "top"
    /\ run_pc' = "spawn_net"
    /\ UNCHANGED <<httpVars, ssid, password, pool, id, seen, wifi_state, disc_event,
                   connect_timer, owed_backoff, netVars, ledVars, postVars, btn_pc, wk, timers>>

\* spawner.spawn(net_task(runner)); then get_ip is entered.
RunSpawnNet ==
    /\ run_pc = "spawn_net"
    /\ spawned' = Append(spawned, T_net)
    /\ run_pc' = "link_check"
    /\ UNCHANGED <<httpVars, ssid, password, pool, id, seen, wifiVars, netVars, ledVars,
                   postVars, btn_pc, wk, timers>>

\* ------------------------------------------------------------------ get_ip
\* First loop of get_ip: `if stack.is_link_up() { break; }`, else sleep.
GetIpLinkCheck ==
    /\ run_pc = "link_check"
    /\ IF link_up
         THEN /\ run_pc' = "ip_check"
              /\ seen' = Append(seen, "link")
         ELSE /\ run_pc' = "link_sleep"
              /\ seen' = seen
    /\ UNCHANGED <<httpVars, ssid, password, pool, spawned, id, wifiVars, netVars, ledVars,
                   postVars, btn_pc, wk, timers>>

\* Timer::after_millis(MILLISECONDS_TO_WAIT) of the first loop has expired.
GetIpLinkTimer ==
    /\ run_pc = "link_sleep"
    /\ run_pc' = "link_check"
    /\ UNCHANGED <<httpVars, ssid, password, pool, spawned, id, seen, wifiVars, netVars,
                   ledVars, postVars, btn_pc, wk, timers>>

get_ip_has_address_mut(cfg) == TRUE
\* `if let Some(config) = stack.config_v4()`
get_ip_has_address(cfg) == cfg

\* Second loop of get_ip: return the address once there is one, else sleep.
GetIpAddrCheck ==
    /\ run_pc = "ip_check"
    /\ IF get_ip_has_address(config_v4)
         THEN /\ run_pc' = "create_pins"
              /\ seen' = Append(seen, IF config_v4 THEN "ip" ELSE "no_ip")
         ELSE /\ run_pc' = "ip_sleep"
              /\ seen' = seen
    /\ UNCHANGED <<httpVars, ssid, password, pool, spawned, id, wifiVars, netVars, ledVars,
                   postVars, btn_pc, wk, timers>>

GetIpAddrTimer ==
    /\ run_pc = "ip_sleep"
    /\ run_pc' = "ip_check"
    /\ UNCHANGED <<httpVars, ssid, password, pool, spawned, id, seen, wifiVars, netVars,
                   ledVars, postVars, btn_pc, wk, timers>>

\* ---------------------------------------------- run: pins, tasks, workers
\* Input::new(GPIO9, pull up); Output::new(GPIO8, Level::High, ..)
RunCreatePins ==
    /\ run_pc = "create_pins"
    /\ led' = "High"
    /\ run_pc' = "spawn_button"
    /\ UNCHANGED <<httpVars, ssid, password, pool, spawned, id, seen, wifiVars, netVars,
                   NOTIFY_LED, led_pc, applied, pend_by, postVars, btn_pc, wk, timers>>

\* spawner.spawn(press_button(button)): its first poll arms the edge wait.
RunSpawnButton ==
    /\ run_pc = "spawn_button"
    /\ spawned' = Append(spawned, T_button)
    /\ btn_pc' = "wait_edge"
    /\ run_pc' = "spawn_led"
    /\ UNCHANGED <<httpVars, ssid, password, pool, id, seen, wifiVars, netVars, ledVars,
                   postVars, wk, timers>>

\* spawner.spawn(change_led(led)): its first poll waits on NOTIFY_LED.
RunSpawnLed ==
    /\ run_pc = "spawn_led"
    /\ spawned' = Append(spawned, T_led)
    /\ led_pc' = "wait"
    /\ run_pc' = "run_server"
    /\ UNCHANGED <<httpVars, ssid, password, pool, id, seen, wifiVars, netVars, NOTIFY_LED,
                   led, applied, pend_by, postVars, btn_pc, wk, timers>>

\* The pool_size of web_task8, the largest of the worker tasks.
WebTask8PoolSize == 8

\* SOCKET_STACK_SIZE of the stack the match in `run` creates for n workers.
SocketStackSize(n) == IF n <= 7 THEN n + 1 ELSE 9

\* pool_size of the task the match in run_server selects: web_task1 .. web_task8.
TaskPoolSize(n) == IF n <= 7 THEN n ELSE 8

\* One iteration of `for id in 0..WEB_TASK_POOL_SIZE.max(1)`, or its end.
\* spawn(..).unwrap() panics when the task's pool is exhausted.
RunServerSpawn ==
    /\ run_pc = "run_server"
    /\ IF id < Workers
         THEN IF id < TaskPoolSize(Workers)
                THEN /\ spawned' = Append(spawned, T_web(id))
                     /\ wk' = [wk EXCEPT ![id] = "accept"]
                     /\ id' = id + 1
                     /\ run_pc' = run_pc
                ELSE /\ run_pc' = "panicked"
                     /\ UNCHANGED <<spawned, wk, id>>
         ELSE /\ run_pc' = "done"
              /\ UNCHANGED <<spawned, wk, id>>
    /\ UNCHANGED <<httpVars, ssid, password, pool, seen, wifiVars, netVars, ledVars,
                   postVars, btn_pc, timers>>

\* ----------------------------------------------------------------- connect
\* The backoff of the connect task, in seconds.
SECONDS_TO_WAIT_FOR_RECONNECTION == 5

\* wifi_controller.is_started(): the station has been started.
is_started(st) == st \in {"StaStarted", "StaConnected", "StaDisconnected"}

\* Lines 80-87: start the radio if it is not started, else attempt to connect.
\* Both start_async and connect_async suspend the task.
connect_after_check(st) == IF is_started(st) THEN "connecting" ELSE "starting"

\* Top of the loop.  When the station is connected the task creates the
\* wait for StaDisconnected (which clears a latched event) and suspends.
ConnectTop ==
    /\ Suspended
    /\ connect_pc = "top"
    /\ IF wifi_state = "StaConnected"
         THEN /\ connect_pc' = "wait_disconnect"
              /\ disc_event' = FALSE
         ELSE /\ connect_pc' = connect_after_check(wifi_state)
              /\ disc_event' = disc_event
    /\ UNCHANGED <<httpVars, startupVars, wifi_state, connect_timer, owed_backoff, netVars, ledVars, postVars,
                   btn_pc, wk, timers>>

\* wait_for_event(StaDisconnected) completes; the 5 s backoff starts.
ConnectDisconnected ==
    /\ Suspended
    /\ connect_pc = "wait_disconnect"
    /\ disc_event
    /\ disc_event' = FALSE
    /\ connect_pc' = "backoff_disc"
    /\ connect_timer' = SECONDS_TO_WAIT_FOR_RECONNECTION
    /\ UNCHANGED <<httpVars, startupVars, wifi_state, owed_backoff, netVars, ledVars, postVars,
                   btn_pc, wk, timers>>

\* Timer::after_secs(SECONDS_TO_WAIT_FOR_RECONNECTION) after a disconnect expired.
ConnectBackoffDisc ==
    /\ Suspended
    /\ connect_pc = "backoff_disc"
    /\ connect_pc' = connect_after_check(wifi_state)
    /\ connect_timer' = 0
    /\ owed_backoff' = FALSE
    /\ UNCHANGED <<httpVars, startupVars, wifi_state, disc_event, netVars, ledVars,
                   postVars, btn_pc, wk, timers>>

\* start_async() completed.
ConnectStarted ==
    /\ Suspended
    /\ connect_pc = "starting"
    /\ wifi_state' = "StaStarted"
    /\ connect_pc' = "connecting"
    /\ UNCHANGED <<httpVars, startupVars, disc_event, connect_timer, owed_backoff, netVars, ledVars, postVars,
                   btn_pc, wk, timers>>

\* connect_async() completed: Ok loops to the top, Err starts the 5 s backoff.
ConnectResult ==
    /\ Suspended
    /\ connect_pc = "connecting"
    /\ \E ok \in BOOLEAN :
         IF ok
           THEN /\ wifi_state' = "StaConnected"
                /\ connect_pc' = "top"
                /\ connect_timer' = 0
           ELSE /\ wifi_state' = "StaDisconnected"
                /\ connect_pc' = "backoff_fail"
                /\ connect_timer' = SECONDS_TO_WAIT_FOR_RECONNECTION
    /\ owed_backoff' = FALSE
    /\ UNCHANGED <<httpVars, startupVars, disc_event, netVars, ledVars, postVars,
                   btn_pc, wk, timers>>

ConnectBackoffFail_mut ==
    /\ Suspended
    /\ connect_pc = "backoff_fail"
    /\ connect_pc' = "stopped"
    /\ connect_timer' = 0
    /\ owed_backoff' = FALSE
    /\ UNCHANGED <<httpVars, startupVars, wifi_state, disc_event, netVars, ledVars,
                   postVars, btn_pc, wk, timers>>
\* Timer::after_secs(SECONDS_TO_WAIT_FOR_RECONNECTION) after a failure expired.
ConnectBackoffFail ==
    /\ Suspended
    /\ connect_pc = "backoff_fail"
    /\ connect_pc' = "top"
    /\ connect_timer' = 0
    /\ owed_backoff' = FALSE
    /\ UNCHANGED <<httpVars, startupVars, wifi_state, disc_event, netVars, ledVars,
                   postVars, btn_pc, wk, timers>>

WifiDisconnect_mut ==
    /\ wifi_state = "StaConnected"
    /\ wifi_state' = "StaDisconnected"
    /\ disc_event' = TRUE
    /\ owed_backoff' = TRUE
    /\ btn_pc' = "off"
    /\ UNCHANGED <<httpVars, startupVars, connect_pc, connect_timer, netVars, ledVars,
                   postVars, wk, timers>>
\* The radio loses the association: the state changes and the event is latched.
WifiDisconnect ==
    /\ wifi_state = "StaConnected"
    /\ wifi_state' = "StaDisconnected"
    /\ disc_event' = TRUE
    /\ owed_backoff' = TRUE
    /\ UNCHANGED <<httpVars, startupVars, connect_pc, connect_timer, netVars, ledVars, postVars, btn_pc,
                   wk, timers>>

\* ---------------------------------------------------------------- net_task
\* runner.run() picks up the link state of the Wi-Fi device; a link that
\* went down drops the DHCP configuration.
NetPollLink ==
    /\ Suspended
    /\ Spawned(T_net)
    /\ link_up # (wifi_state = "StaConnected")
    /\ link_up' = (wifi_state = "StaConnected")
    /\ config_v4' = (config_v4 /\ link_up')
    /\ UNCHANGED <<httpVars, startupVars, wifiVars, leased, ledVars, postVars, btn_pc, wk,
                   timers>>

\* runner.run() completes a DHCP exchange: the stack has a leased address.
NetDhcpLease ==
    /\ Suspended
    /\ Spawned(T_net)
    /\ link_up
    /\ ~config_v4
    /\ config_v4' = TRUE
    /\ leased' = TRUE
    /\ UNCHANGED <<httpVars, startupVars, wifiVars, link_up, ledVars, postVars, btn_pc, wk,
                   timers>>

\* -------------------------------------------------------------- NOTIFY_LED
Signal_signal_mut(cell, v, n) ==
    IF cell.val = None THEN [val |-> v, id |-> n] ELSE cell
\* NOTIFY_LED.signal(v): store v, replacing whatever is pending.
\* n, the number of the post, is carried along for the history.
Signal_signal(cell, v, n) == [val |-> v, id |-> n]

Signal_take_mut(cell) == cell
\* The slot after NOTIFY_LED.wait() has returned its value: empty.
Signal_take(cell) == [val |-> None, id |-> 0]

LedWakePending == \E i \in 1 .. Len(timers) : timers[i] = <<T_led, "ready">>

WakeLed_mut(q) == q
\* signal() wakes change_led when it is suspended in wait() and has not been
\* woken already.
WakeLed(q) ==
    IF led_pc = "wait" /\ ~LedWakePending THEN Append(q, <<T_led, "ready">>) ELSE q

RemoveAt(q, i) == SubSeq(q, 1, i - 1) \o SubSeq(q, i + 1, Len(q))

\* Task t calls NOTIFY_LED.signal(v) and then Timer::after_millis(MILLISECONDS_TO_WAIT).
Post(t, v) ==
    /\ Len(posted) < MaxPosts
    /\ NOTIFY_LED' = Signal_signal(NOTIFY_LED, v, Len(posted) + 1)
    /\ posted' = Append(posted, v)
    /\ pend_at' = Append(pend_at, NOTIFY_LED.id)
    /\ level_at' = Append(level_at, led)
    /\ pend_by' = t
    /\ timers' = Append(WakeLed(timers), <<t, "timer">>)

\* ------------------------------------------------------------ press_button
press_button_nosleep ==
    /\ Suspended
    /\ btn_pc = "wait_edge"
    /\ Len(posted) < MaxPosts
    /\ NOTIFY_LED' = Signal_signal(NOTIFY_LED, "Button", Len(posted) + 1)
    /\ posted' = Append(posted, "Button")
    /\ pend_at' = Append(pend_at, NOTIFY_LED.id)
    /\ level_at' = Append(level_at, led)
    /\ pend_by' = T_button
    /\ timers' = WakeLed(timers)
    /\ UNCHANGED <<httpVars, startupVars, wifiVars, netVars, led, led_pc, applied, wk, btn_pc>>
press_button_mut ==
    /\ Suspended
    /\ btn_pc = "wait_edge"
    /\ Post(T_button, "Button")
    /\ btn_pc' = "sleep"
    /\ led' = IF led = "High" THEN "Low" ELSE "High"
    /\ UNCHANGED <<httpVars, startupVars, wifiVars, netVars, led_pc, applied, wk>>
\* A rising edge completes wait_for_rising_edge: signal Button, then sleep.
press_button ==
    /\ Suspended
    /\ btn_pc = "wait_edge"
    /\ Post(T_button, "Button")
    /\ btn_pc' = "sleep"
    /\ UNCHANGED <<httpVars, startupVars, wifiVars, netVars, led, led_pc, applied, wk>>

\* A rising edge on the input while nothing waits for one: before
\* press_button has been started, or while it sleeps after a post.  Nothing
\* in the program records it.
RisingEdgeUnarmed ==
    /\ btn_pc # "wait_edge"
    /\ UNCHANGED vars

ButtonTimer_mut ==
    /\ Suspended
    /\ timers # <<>>
    /\ Head(timers) = <<T_button, "timer">>
    /\ Len(posted) < MaxPosts
    /\ NOTIFY_LED' = Signal_signal(NOTIFY_LED, "Button", Len(posted) + 1)
    /\ posted' = Append(posted, "Button")
    /\ pend_at' = Append(pend_at, NOTIFY_LED.id)
    /\ level_at' = Append(level_at, led)
    /\ pend_by' = T_button
    /\ timers' = Append(WakeLed(Tail(timers)), <<T_button, "timer">>)
    /\ UNCHANGED <<httpVars, startupVars, wifiVars, netVars, led, led_pc, applied, wk, btn_pc>>
\* The sleep of press_button is over: the task waits for the next edge.
ButtonTimer ==
    /\ Suspended
    /\ timers # <<>>
    /\ Head(timers) = <<T_button, "timer">>
    /\ timers' = Tail(timers)
    /\ btn_pc' = "wait_edge"
    /\ UNCHANGED <<httpVars, startupVars, wifiVars, netVars, ledVars, postVars, wk>>

\* -------------------------------------------------------------- change_led
led_on_mut(level) == "High"
\* led.set_low()
led_on(level) == "Low"
\* led.set_high()
led_off(level) == "High"

change_led_match_mut(led_input, level) ==
    CASE led_input = "On" -> led_on(level)
      [] led_input = "Off" -> led_off(level)
      [] led_input = "Button" -> IF level = "Low" THEN led_on(level) ELSE led_off(level)
\* The match of change_led: the level the pin is driven to.
change_led_match(led_input, level) ==
    CASE led_input = "On" -> led_on(level)
      [] led_input = "Off" -> led_off(level)
      [] led_input = "Button" -> IF level = "High" THEN led_on(level) ELSE led_off(level)

Consume_mut(q) ==
    /\ led' = change_led_match(NOTIFY_LED.val, led)
    /\ NOTIFY_LED' = Signal_take(NOTIFY_LED)
    /\ applied' = Append(applied, [id |-> NOTIFY_LED.id, val |-> NOTIFY_LED.val,
                                   at |-> Len(posted), before |-> led, after |-> led'])
    /\ led_pc' = "wait"
    /\ pend_by' = NoTask
    /\ timers' = q
\* wait() returned: take the value, drive the pin, start the sleep.
\* q is the wake-up queue without the wake-up that made the task run.
Consume(q) ==
    /\ led' = change_led_match(NOTIFY_LED.val, led)
    /\ NOTIFY_LED' = Signal_take(NOTIFY_LED)
    /\ applied' = Append(applied, [id |-> NOTIFY_LED.id, val |-> NOTIFY_LED.val,
                                   at |-> Len(posted), before |-> led, after |-> led'])
    /\ led_pc' = "sleep"
    /\ pend_by' = NoTask
    /\ timers' = Append(q, <<T_led, "timer">>)

\* change_led is polled after a signal woke it.
ChangeLedWake ==
    /\ Suspended
    /\ \E i \in 1 .. Len(timers) :
         /\ timers[i] = <<T_led, "ready">>
         /\ Consume(RemoveAt(timers, i))
    /\ UNCHANGED <<httpVars, startupVars, wifiVars, netVars, postVars, btn_pc, wk>>

\* The sleep of change_led is over: wait() returns at once when an intent is
\* pending, else the task suspends in wait().
ChangeLedTimer ==
    /\ Suspended
    /\ timers # <<>>
    /\ Head(timers) = <<T_led, "timer">>
    /\ IF NOTIFY_LED.val # None
         THEN Consume(Tail(timers))
         ELSE /\ timers' = Tail(timers)
              /\ led_pc' = "wait"
              /\ UNCHANGED <<NOTIFY_LED, led, applied, pend_by>>
    /\ UNCHANGED <<httpVars, startupVars, wifiVars, netVars, postVars, btn_pc, wk>>

\* ---------------------------------------------------------------- web_task
\* The intent each route of build_app posts.
Routes == [on |-> "On", off |-> "Off"]

\* listen_and_serve accepted a connection on port 80.
WebAccept(w) ==
    /\ Suspended
    /\ wk[w] = "accept"
    /\ wk' = [wk EXCEPT ![w] = "serve"]
    /\ UNCHANGED <<httpVars, startupVars, wifiVars, netVars, ledVars, postVars, btn_pc,
                   timers>>

\* The requests a client sends: a method and a path.
Methods == {"GET", "POST"}
Paths == {"/on", "/off", "/x"}

Router_mut(method, path) ==
    IF path = "/on" THEN Routes.on
    ELSE IF path = "/off" THEN Routes.off
    ELSE None
\* The router of build_app: the intent of the handler registered for the
\* method and the path, None when there is none.
Router(method, path) ==
    IF method = "GET" /\ path = "/on" THEN Routes.on
    ELSE IF method = "GET" /\ path = "/off" THEN Routes.off
    ELSE None

\* The status of the response: a handler returns the unit value, which is
\* answered 200; a request without a handler is answered 404.
Answer(method, path) == IF Router(method, path) # None THEN 200 ELSE 404

WebRequest_mut(w, method, path) ==
    /\ Suspended
    /\ wk[w] = "serve"
    /\ IF Router(method, path) # None
         THEN /\ Len(posted) < MaxPosts
              /\ NOTIFY_LED' = Signal_signal(NOTIFY_LED, Router(method, path), Len(posted) + 1)
              /\ posted' = Append(posted, Router(method, path))
              /\ pend_at' = Append(pend_at, NOTIFY_LED.id)
              /\ level_at' = Append(level_at, led)
              /\ pend_by' = T_web(w)
              /\ timers' = WakeLed(timers)
              /\ UNCHANGED <<led, led_pc, applied, wk>>
         ELSE UNCHANGED <<ledVars, postVars, wk, timers>>
    /\ UNCHANGED <<startupVars, wifiVars, netVars, btn_pc>>
\* Worker w read a request and dispatched it: a handler signals and sleeps
\* before its response is written, any other request is answered at once.
WebRequest(w, method, path) ==
    /\ Suspended
    /\ wk[w] = "serve"
    /\ IF Router(method, path) # None
         THEN /\ Post(T_web(w), Router(method, path))
              /\ wk' = [wk EXCEPT ![w] = "settle"]
              /\ UNCHANGED <<led, led_pc, applied>>
         ELSE UNCHANGED <<ledVars, postVars, wk, timers>>
    /\ UNCHANGED <<startupVars, wifiVars, netVars, btn_pc>>

WebHandler(w) == \E method \in Methods, path \in Paths : WebRequest(w, method, path)

\* The handler's sleep is over: the response is written, the connection is kept.
WebSettleTimer(w) ==
    /\ Suspended
    /\ timers # <<>>
    /\ Head(timers) = <<T_web(w), "timer">>
    /\ timers' = Tail(timers)
    /\ wk' = [wk EXCEPT ![w] = "serve"]
    /\ UNCHANGED <<httpVars, startupVars, wifiVars, netVars, ledVars, postVars, btn_pc>>

\* The connection ends (closed by the client, or a read timeout): the worker
\* accepts again.
WebClose(w) ==
    /\ Suspended
    /\ wk[w] = "serve"
    /\ wk' = [wk EXCEPT ![w] = "accept"]
    /\ UNCHANGED <<httpVars, startupVars, wifiVars, netVars, ledVars, postVars, btn_pc,
                   timers>>

\* The timeouts of the server configuration, in seconds.
Timeouts ==
    [start_read_request |-> 5, persistent_start_read_request |-> 1,
     read_request |-> 1, write |-> 1]

\* The timeouts that end a connection while the worker reads from it.
ReadTimeouts == DOMAIN Timeouts \ {"write"}

WebTimeout_mut(w) ==
    /\ Suspended
    /\ wk[w] = "serve"
    /\ \E k \in ReadTimeouts :
         wk' = [v \in WorkerIds |-> IF wk[v] = "off" THEN "off" ELSE "accept"]
    /\ UNCHANGED <<startupVars, wifiVars, netVars, ledVars, postVars, btn_pc,
                   timers>>
\* One of the read timeouts expired on the connection of worker w (no request
\* started on a new connection, none followed on a kept one, or one was not
\* completed): the connection is closed and the worker accepts again.
WebTimeout(w) ==
    /\ Suspended
    /\ wk[w] = "serve"
    /\ \E k \in ReadTimeouts : wk' = [wk EXCEPT ![w] = "accept"]
    /\ UNCHANGED <<startupVars, wifiVars, netVars, ledVars, postVars, btn_pc,
                   timers>>

\* The handler's sleep is over and the response could not be written within
\* the write timeout: the connection is closed and the worker accepts again.
WebWriteTimeout(w) ==
    /\ Suspended
    /\ timers # <<>>
    /\ Head(timers) = <<T_web(w), "timer">>
    /\ timers' = Tail(timers)
    /\ wk' = [wk EXCEPT ![w] = "accept"]
    /\ UNCHANGED <<startupVars, wifiVars, netVars, ledVars, postVars, btn_pc>>

\* The bytes read on the connection of worker w are not an HTTP request: no
\* handler runs, the connection is closed and the worker accepts again.
WebMalformed(w) ==
    /\ Suspended
    /\ wk[w] = "serve"
    /\ wk' = [wk EXCEPT ![w] = "accept"]
    /\ UNCHANGED <<startupVars, wifiVars, netVars, ledVars, postVars, btn_pc,
                   timers>>

WebAcceptAny == \E w \in WorkerIds : WebAccept(w)
WebTimeoutAny == \E w \in WorkerIds : WebTimeout(w) /\ UNCHANGED httpVars
WebWriteTimeoutAny == \E w \in WorkerIds : WebWriteTimeout(w) /\ UNCHANGED httpVars
WebMalformedAny == \E w \in WorkerIds : WebMalformed(w) /\ UNCHANGED httpVars

\* The same steps, with the history of the last event on a connection kept.
HttpEvent(method, path, status, failure) ==
    [method |-> method, path |-> path, status |-> status, failure |-> failure]

WebHandlerLogged ==
    \E w \in WorkerIds, method \in Methods, path \in Paths :
        /\ last_req' = HttpEvent(method, path, Answer(method, path), None)
        /\ WebRequest(w, method, path)
WebTimeoutLogged ==
    \E w \in WorkerIds :
        WebTimeout(w) /\ last_req' = HttpEvent(None, None, 0, "read timeout")
WebWriteTimeoutLogged ==
    \E w \in WorkerIds :
        WebWriteTimeout(w) /\ last_req' = HttpEvent(None, None, 0, "write timeout")
WebMalformedLogged ==
    \E w \in WorkerIds :
        WebMalformed(w) /\ last_req' = HttpEvent(None, None, 0, "malformed")
WebHandlerAny == \E w \in WorkerIds : WebHandler(w) /\ UNCHANGED httpVars
WebSettleTimerAny == \E w \in WorkerIds : WebSettleTimer(w)
WebCloseAny == \E w \in WorkerIds : WebClose(w)

\* ------------------------------------------------------------ specification
Next ==
    \/ RunAssertSsid
    \/ RunAssertPassword
    \/ RunSpawnConnect
    \/ RunSpawnNet
    \/ GetIpLinkCheck
    \/ GetIpLinkTimer
    \/ GetIpAddrCheck
    \/ GetIpAddrTimer
    \/ RunCreatePins
    \/ RunSpawnButton
    \/ RunSpawnLed
    \/ RunServerSpawn
    \/ ConnectTop
    \/ ConnectDisconnected
    \/ ConnectBackoffDisc
    \/ ConnectStarted
    \/ ConnectResult
    \/ ConnectBackoffFail
    \/ WifiDisconnect
    \/ NetPollLink
    \/ NetDhcpLease
    \/ press_button
    \/ RisingEdgeUnarmed
    \/ ButtonTimer
    \/ ChangeLedWake
    \/ ChangeLedTimer
    \/ WebAcceptAny
    \/ WebHandlerAny
    \/ WebSettleTimerAny
    \/ WebCloseAny
    \/ WebTimeoutAny
    \/ WebWriteTimeoutAny
    \/ WebMalformedAny

Spec == Init /\ [][Next]_vars

\* A step of `run`.
RunStep ==
    \/ RunAssertSsid
    \/ RunAssertPassword
    \/ RunSpawnConnect
    \/ RunSpawnNet
    \/ GetIpLinkCheck
    \/ GetIpLinkTimer
    \/ GetIpAddrCheck
    \/ GetIpAddrTimer
    \/ RunCreatePins
    \/ RunSpawnButton
    \/ RunSpawnLed
    \/ RunServerSpawn

\* A step of the connect task.
ConnectStep ==
    \/ ConnectTop
    \/ ConnectDisconnected
    \/ ConnectBackoffDisc
    \/ ConnectStarted
    \/ ConnectResult
    \/ ConnectBackoffFail

\* connect_async() returned Ok.
ConnectSucceeds == ConnectResult /\ wifi_state' = "StaConnected"

\* The executor keeps polling `run` and the connect task and their timers
\* expire: the connect task, which runs whenever `run` is suspended, is not
\* passed over forever while `run` polls in get_ip; and association attempts
\* do not fail forever.
LinkFairSpec ==
    /\ Spec
    /\ WF_vars(RunStep)
    /\ SF_vars(ConnectStep)
    /\ SF_vars(ConnectSucceeds)

\* A sleep of get_ip ends while the link is up, and while there is an address.
GetIpSeesLink == GetIpLinkTimer /\ link_up
GetIpSeesAddress == GetIpAddrTimer /\ config_v4

\* A network that grants a lease: besides the fairness of LinkFairSpec, the
\* network task is polled, the DHCP exchange is not cut short forever by
\* disconnects, and the link and the address are not gone at the end of every
\* sleep of get_ip; the LED, button and handler tasks are polled and their timers expire.
E2EFairSpec ==
    /\ LinkFairSpec
    /\ SF_vars(NetPollLink)
    /\ SF_vars(NetDhcpLease)
    /\ SF_vars(GetIpSeesLink)
    /\ SF_vars(GetIpSeesAddress)
    /\ WF_vars(ChangeLedWake)
    /\ WF_vars(ChangeLedTimer)
    /\ WF_vars(ButtonTimer)
    /\ WF_vars(WebSettleTimerAny)

\* The program built with one of the pool sizes of Spec, or with one worker
\* more than the largest worker task has room for.
PoolInit == InitWith((0 .. MaxPool) \cup {WebTask8PoolSize + 1})

PoolSpec == PoolInit /\ [][Next]_vars

\* The program with the history of the last connection event.
NextHttp ==
    \/ RunAssertSsid
    \/ RunAssertPassword
    \/ RunSpawnConnect
    \/ RunSpawnNet
    \/ GetIpLinkCheck
    \/ GetIpLinkTimer
    \/ GetIpAddrCheck
    \/ GetIpAddrTimer
    \/ RunCreatePins
    \/ RunSpawnButton
    \/ RunSpawnLed
    \/ RunServerSpawn
    \/ ConnectTop
    \/ ConnectDisconnected
    \/ ConnectBackoffDisc
    \/ ConnectStarted
    \/ ConnectResult
    \/ ConnectBackoffFail
    \/ WifiDisconnect
    \/ NetPollLink
    \/ NetDhcpLease
    \/ press_button
    \/ RisingEdgeUnarmed
    \/ ButtonTimer
    \/ ChangeLedWake
    \/ ChangeLedTimer
    \/ WebAcceptAny
    \/ WebHandlerLogged
    \/ WebSettleTimerAny
    \/ WebCloseAny
    \/ WebTimeoutLogged
    \/ WebWriteTimeoutLogged
    \/ WebMalformedLogged

HttpSpec == Init /\ [][NextHttp]_vars

\* The executor polls every woken task, and time passes: a task woken by the
\* signal runs, and the oldest pending timer expires.
FairSpec ==
    /\ Spec
    /\ WF_vars(ChangeLedWake)
    /\ WF_vars(ChangeLedTimer)
    /\ WF_vars(ButtonTimer)
    /\ WF_vars(WebSettleTimerAny)

\* ------------------------------------------------------------------ claims
AppliedIdx == 1 .. Len(applied)
PostIdx == 1 .. Len(posted)
LastTakenAt == IF applied = <<>> THEN 0 ELSE Last(applied).at

\* C1: every consumption by change_led returns the last intent posted before
\* it, and that post was made after the previous consumption; and whenever a
\* post was made since the last consumption the signal holds the last intent
\* posted, so the next consumption cannot return nothing.
C1_LastPostWins ==
    /\ \A i \in AppliedIdx :
         /\ applied[i].at >= 1
         /\ applied[i].id = applied[i].at
         /\ applied[i].val = posted[applied[i].at]
         /\ (i > 1 => applied[i - 1].at < applied[i].id)
    /\ (Len(posted) > LastTakenAt =>
          /\ NOTIFY_LED.val = Last(posted)
          /\ NOTIFY_LED.id = Len(posted))

\* C1 witness: a consumption returned a post that had overwritten a pending one.
C1_Witness == \E i \in AppliedIdx : pend_at[applied[i].id] # 0

\* C2: every intent applied is the value of one post, no post is applied
\* twice, and a post that is neither applied nor still pending in the signal
\* was found pending, and overwritten, by a later post.
C2_AppliedOncePerPost ==
    /\ \A i \in AppliedIdx :
         /\ applied[i].id \in PostIdx
         /\ applied[i].val = posted[applied[i].id]
    /\ \A i, j \in AppliedIdx : i # j => applied[i].id # applied[j].id
    /\ \A n \in PostIdx :
         \/ \E i \in AppliedIdx : applied[i].id = n
         \/ NOTIFY_LED.val # None /\ NOTIFY_LED.id = n
         \/ \E m \in PostIdx : m > n /\ pend_at[m] = n

\* C2 witness: two posts were applied and another one was overwritten.
C2_Witness ==
    /\ Len(applied) >= 2
    /\ \E m \in PostIdx : pend_at[m] # 0
    /\ NOTIFY_LED.val = None

\* The signal is empty and the last thing change_led applied is the last post.
Drained ==
    /\ NOTIFY_LED.val = None
    /\ applied # <<>>
    /\ Last(applied).id = Len(posted)
    /\ Last(applied).val = Last(posted)
    /\ led = Last(applied).after

\* C3: in every fair behaviour with at least one post, from some point on
\* (the producers having stopped) the signal stays empty and the last intent
\* applied to the pin is the most recently posted one.
C3_EventuallyLastPost == <>[](posted # <<>> => Drained)

\* C3 witness: three posts were made, the last one is applied, an earlier one was lost.
C3_Witness ==
    /\ Len(posted) = MaxPosts
    /\ Drained
    /\ Len(applied) < Len(posted)

\* C4: On leaves the pin low, Off leaves it high, Button leaves it at the
\* opposite of the level it had when the intent was taken; the pin is created
\* high and holds what change_led drove last.
C4_ApplyIntent ==
    /\ \A i \in AppliedIdx :
         /\ applied[i].before \in {"High", "Low"}
         /\ applied[i].val = "On" => applied[i].after = "Low"
         /\ applied[i].val = "Off" => applied[i].after = "High"
         /\ applied[i].val = "Button" =>
              applied[i].after = (IF applied[i].before = "Low" THEN "High" ELSE "Low")
    /\ (led_pc # "off" /\ applied = <<>>) => led = "High"
    /\ applied # <<>> => led = Last(applied).after

\* C4 witness: Button was applied to a low pin and to a high pin, after an On.
C4_Witness ==
    /\ \E i \in AppliedIdx : applied[i].val = "Button" /\ applied[i].before = "Low"
    /\ \E i \in AppliedIdx : applied[i].val = "Button" /\ applied[i].before = "High"
    /\ \E i \in AppliedIdx : applied[i].val = "On"

\* C5: when two successive posts are both Button, the application of the
\* second leaves the pin at the level it had when the first was posted; so
\* with these two the last posts and the signal drained, the pin is back there.
C5_DoubleToggle ==
    \A n \in PostIdx :
        (n > 1 /\ posted[n - 1] = "Button" /\ posted[n] = "Button") =>
            /\ pend_at[n] # n - 1
            /\ \A i \in AppliedIdx :
                 applied[i].id = n => applied[i].after = level_at[n - 1]
            /\ (Len(posted) = n /\ NOTIFY_LED.val = None) => led = level_at[n - 1]

\* C5 witness: two successive Button posts, posted while the pin was low, drained.
C5_Witness ==
    /\ Len(posted) >= 3
    /\ posted[Len(posted) - 1] = "Button"
    /\ posted[Len(posted)] = "Button"
    /\ level_at[Len(posted) - 1] = "Low"
    /\ Drained

\* C6: when Off is posted while an On is still pending in the signal, that On
\* is never applied, and with no later post and the signal drained the pin is
\* high, driven there by the Off.
C6_OnThenOff ==
    \A n \in PostIdx :
        (n > 1 /\ posted[n - 1] = "On" /\ posted[n] = "Off" /\ pend_at[n] = n - 1) =>
            /\ \A i \in AppliedIdx : applied[i].id # n - 1
            /\ (Len(posted) = n /\ NOTIFY_LED.val = None) =>
                 /\ led = "High"
                 /\ applied # <<>>
                 /\ Last(applied).val = "Off"

\* C6 witness: the pin was low, On was posted, Off overwrote it and was applied.
C6_Witness ==
    /\ Len(posted) = 3
    /\ posted[2] = "On" /\ posted[3] = "Off" /\ pend_at[3] = 2
    /\ level_at[3] = "Low"
    /\ NOTIFY_LED.val = None
    /\ led = "High"

\* C7: once the pin exists its level changes only in a step of change_led;
\* every step of the other tasks, of get_ip and of the radio leaves it as it is.
C7_OnlyLedTaskWritesPin ==
    [][(led # "Unconfigured" /\ led' # led) => (ChangeLedWake \/ ChangeLedTimer)]_vars

\* C7 witness: the button, a handler and the radio have acted, the pin was
\* driven low by change_led and an intent is pending.
C7_Witness ==
    /\ \E n \in PostIdx : posted[n] = "Button"
    /\ \E n \in PostIdx : posted[n] = "On"
    /\ wifi_state = "StaDisconnected"
    /\ ~link_up
    /\ led = "Low"
    /\ NOTIFY_LED.val # None

\* A worker listens on port 80.
Listening == \E w \in WorkerIds : wk[w] = "accept"

\* C8: with an empty SSID or an empty password nothing is ever spawned: no
\* task leaves its initial position and no worker listens.
C8_EmptyConfigHalts ==
    (ssid = "" \/ password = "") =>
        /\ spawned = <<>>
        /\ connect_pc = "off"
        /\ btn_pc = "off"
        /\ led_pc = "off"
        /\ \A w \in WorkerIds : wk[w] = "off"
        /\ ~Listening
        /\ run_pc \in {"assert_ssid", "assert_password", "panicked"}

\* C8 witness: the SSID is set, the password is empty, the second assert panicked.
C8_Witness == ssid # "" /\ password = "" /\ run_pc = "panicked"

\* The order in which run spawns: connect, net_task, press_button, change_led,
\* then the workers by id.
SpawnOrder ==
    <<T_connect, T_net, T_button, T_led>> \o [i \in 1 .. Workers |-> T_web(i - 1)]

\* C9: tasks are spawned in the order connect, net_task, press_button,
\* change_led, workers; press_button, change_led and the workers are spawned
\* only after get_ip saw the link up and then a leased address, which the
\* network granted; without a lease none of them is ever spawned.
C9_StartupOrder ==
    /\ Len(spawned) <= Len(SpawnOrder)
    /\ spawned = SubSeq(SpawnOrder, 1, Len(spawned))
    /\ (Len(spawned) > 2 \/ btn_pc # "off" \/ led_pc # "off"
          \/ \E w \in WorkerIds : wk[w] # "off") =>
         /\ seen = <<"link", "ip">>
         /\ leased
    /\ (\E w \in WorkerIds : wk[w] # "off") => (btn_pc # "off" /\ led_pc # "off")
    /\ ~leased => Len(spawned) <= 2

\* C9 witness: two workers, everything spawned, run has returned.
C9_Witness == pool = 2 /\ run_pc = "done" /\ Len(spawned) = 6 /\ Spawned(T_web(1))

\* A step that ends the connection of worker w without the client closing it.
ConnectionFails(w) == WebTimeout(w) \/ WebWriteTimeout(w) \/ WebMalformed(w)

\* C11: a timeout (start of a request, start of a following request, end of
\* a request, end of a response) or a malformed request on the connection of
\* one worker leaves every other worker, the signal and the pin as they were,
\* and the worker whose connection it was accepts again on port 80.
C11_FailureClosesOneConnection ==
    [][\A w \in WorkerIds :
         ConnectionFails(w) =>
           /\ wk'[w] = "accept"
           /\ \A v \in WorkerIds \ {w} : wk'[v] = wk[v]
           /\ UNCHANGED <<NOTIFY_LED, led, led_pc, btn_pc, postVars, applied>>]_vars

\* C11 witness: the last thing that happened on a connection was a timeout
\* of the write of a response, while another worker was in a handler, an
\* intent was pending and the LED was on.
C11_Witness ==
    /\ last_req.failure = "write timeout"
    /\ \E w, v \in WorkerIds : wk[w] = "accept" /\ wk[v] = "settle"
    /\ led = "Low"
    /\ NOTIFY_LED.val # None

\* A step in which a worker dispatched a request: the history names another
\* event than before, or names the same request again and a worker posted.
Dispatched ==
    /\ last_req'.method # None
    /\ \/ last_req' # last_req
       \/ posted' # posted /\ pend_by'[1] = "web_task"

C13_RetryWithFixedBackoff ==
    /\ [][(connect_pc = "connecting" /\ connect_pc' # "connecting") =>
            \/ wifi_state' = "StaConnected" /\ connect_pc' = "top"
            \/ /\ wifi_state' # "StaConnected"
               /\ connect_pc' = "backoff_fail"
               /\ connect_timer' = SECONDS_TO_WAIT_FOR_RECONNECTION]_vars
    /\ [][(connect_pc = "backoff_fail" /\ connect_pc' # "backoff_fail") =>
            connect_pc' = "top" /\ wifi_state' # "StaConnected"]_vars
    /\ [][(connect_pc = "top" /\ wifi_state # "StaConnected" /\ connect_pc' # "top") =>
            connect_pc' = IF wifi_state = "Invalid" THEN "starting" ELSE "connecting"]_vars
    /\ [](connect_pc = "backoff_fail" => connect_timer = SECONDS_TO_WAIT_FOR_RECONNECTION)
    /\ ((connect_pc = "backoff_fail") ~> (connect_pc = "connecting"))
    /\ ((wifi_state = "StaDisconnected") ~> (wifi_state = "StaConnected"))

\* C13 witness: after the station had been connected and had a lease, an
\* attempt failed and the task is in its backoff.
C13_Witness ==
    /\ connect_pc = "backoff_fail"
    /\ connect_timer = SECONDS_TO_WAIT_FOR_RECONNECTION
    /\ leased
    /\ run_pc = "done"

\* C14: whenever the station went from connected to disconnected, the connect
\* task is in an association attempt only after a backoff of
\* SECONDS_TO_WAIT_FOR_RECONNECTION has ended since the disconnect, wherever
\* the task was when the disconnect happened.
C14_BackoffBeforeRetry == connect_pc = "connecting" => ~owed_backoff

\* C15: no step of the connect task and no disconnect changes the signal,
\* the pin, the button task, the LED task, a worker or a timer of theirs;
\* and once `run` has started them, whatever the state of the link, the
\* button task waiting for an edge can post and the LED task woken by a post
\* can consume it.
C15_LinkStepsLeaveTasksAlone ==
    /\ [][(wifiVars' # wifiVars) =>
            UNCHANGED <<NOTIFY_LED, led, led_pc, btn_pc, wk, timers, postVars, applied>>]_vars
    /\ []((run_pc = "done" /\ btn_pc = "wait_edge" /\ Len(posted) < MaxPosts)
            => ENABLED press_button)
    /\ []((run_pc = "done" /\ LedWakePending) => ENABLED ChangeLedWake)

\* C15 witness: the link is down, the connect task is in its backoff after
\* a disconnect, a Button intent is pending and the LED task can consume it,
\* and the button task has applied intents before.
C15_Witness ==
    /\ wifi_state = "StaDisconnected"
    /\ ~link_up
    /\ connect_pc = "backoff_disc"
    /\ NOTIFY_LED.val = "Button"
    /\ applied # <<>>
    /\ ENABLED ChangeLedWake

\* C16: with both credentials set and a network that grants a lease, `run`
\* gets its address and starts the tasks and the workers; GET /on has a
\* handler, which is answered 200, and when On is the only post, by the end
\* of the handler's sleep it has been applied and the pin is low (LED on);
\* and when a Button post followed that application, by the end of the
\* button task's sleep it has been applied and the pin is high (LED off).
C16_EndToEnd ==
    /\ ((ssid # "" /\ password # "" /\ run_pc = "assert_ssid") ~> (run_pc = "done"))
    /\ [](run_pc = "done" =>
            /\ leased
            /\ btn_pc # "off"
            /\ led_pc # "off"
            /\ \A w \in WorkerIds : wk[w] # "off")
    /\ [](Router("GET", "/on") = "On" /\ Answer("GET", "/on") = 200)
    /\ []((posted = <<"On">> /\ \A w \in WorkerIds : wk[w] # "settle") =>
            /\ NOTIFY_LED.val = None
            /\ Len(applied) = 1
            /\ applied[1].val = "On"
            /\ led = "Low")
    /\ []((posted = <<"On", "Button">> /\ pend_at[2] = 0 /\ btn_pc = "wait_edge") =>
            /\ NOTIFY_LED.val = None
            /\ Len(applied) = 2
            /\ applied[2].val = "Button"
            /\ applied[2].before = "Low"
            /\ led = "High")

\* C16 witness: after startup GET /on was posted and applied, then a Button
\* post was applied, the button's sleep is over and the LED is off.
C16_Witness ==
    /\ run_pc = "done"
    /\ posted = <<"On", "Button">>
    /\ pend_at = <<0, 0>>
    /\ btn_pc = "wait_edge"
    /\ Len(applied) = 2
    /\ led = "High"

\* The task t is in the sleep that follows its post.
Settling(t) == \E i \in 1 .. Len(timers) : timers[i] = <<t, "timer">>

\* C17: while an intent is pending, the task that posted it is still in the
\* sleep that follows the post; so a worker whose handler has finished has
\* no intent pending, and a post that overwrites a pending intent comes from
\* another task than the one that posted it, while that one still sleeps:
\* requests handled one after another never overwrite each other's intents.
C17_HandlerNotOutrun ==
    /\ [](NOTIFY_LED.val # None => pend_by # NoTask /\ Settling(pend_by))
    /\ [](\A w \in WorkerIds : wk[w] # "settle" => pend_by # T_web(w))
    /\ [][(posted' # posted /\ NOTIFY_LED.val # None) =>
            /\ pend_by' # pend_by
            /\ Settling(pend_by)]_vars

\* C17 witness: one worker only, three handler posts and no other post, each
\* found the signal empty and each was applied.
C17_Witness ==
    /\ Workers = 1
    /\ posted = <<"On", "Off", "On">>
    /\ pend_at = <<0, 0, 0>>
    /\ Len(applied) = 3
    /\ wk[0] = "serve"

\* The timer of change_led's sleep is the next one to expire.
LedTimerDue == led_pc = "sleep" /\ timers # <<>> /\ Head(timers) = <<T_led, "timer">>

\* C18: change_led applies one intent at a time and starts its sleep with
\* every application, so the next application comes no sooner than the end
\* of that sleep (MILLISECONDS_TO_WAIT after the application); and while the
\* task sleeps no step but an application at the end of the sleep changes
\* the pin or empties the signal: an intent posted meanwhile stays pending,
\* or is overwritten, and the sleep ends without an application only when
\* nothing is pending.
C18_OneIntentPerInterval ==
    /\ [][(applied' # applied) =>
            /\ Len(applied') = Len(applied) + 1
            /\ led_pc = "wait" \/ LedTimerDue
            /\ led_pc' = "sleep"
            /\ timers'[Len(timers')] = <<T_led, "timer">>]_vars
    /\ [](led_pc = "sleep" <=> Settling(T_led))
    /\ [][(led_pc = "sleep" /\ applied' = applied) =>
            /\ led' = led
            /\ NOTIFY_LED.val # None => NOTIFY_LED'.val # None
            /\ NOTIFY_LED' # NOTIFY_LED => posted' # posted
            /\ led_pc' # "sleep" => LedTimerDue /\ NOTIFY_LED.val = None]_vars

\* C18 witness: change_led sleeps after an application, and an intent posted
\* during the sleep is pending, having overwritten another one.
C18_Witness ==
    /\ led_pc = "sleep"
    /\ applied # <<>>
    /\ NOTIFY_LED.val # None
    /\ pend_at[NOTIFY_LED.id] > Last(applied).id

\* The workers run_server has started.
Started == {w \in WorkerIds : wk[w] # "off"}

\* C19: whatever the pool size of the build, with both credentials set no
\* spawn panics, once run_server is through exactly max(N, 1) workers are
\* started, and the stack, created before the first task is spawned, has a
\* socket for each of them and one more.
C19_PoolStartsAllWorkers ==
    /\ (ssid # "" /\ password # "") => run_pc # "panicked"
    /\ run_pc = "done" => Cardinality(Started) = Workers
    /\ spawned # <<>> => SocketStackSize(Workers) >= Workers + 1

\* A step in which Button is posted.
ButtonPosted == posted' # posted /\ Last(posted') = "Button"

\* C20: Button is posted only by the button task waiting for an edge, once
\* per edge, and the post starts the task's sleep; the task starts to wait
\* only when `run`, back from get_ip, spawns it and when its sleep ends, and
\* neither step posts: an edge before the start or during the sleep posts
\* nothing then and nothing later.
C20_OneTogglePerArmedEdge ==
    /\ [][ButtonPosted =>
            /\ btn_pc = "wait_edge"
            /\ btn_pc' = "sleep"
            /\ Len(posted') = Len(posted) + 1
            /\ timers'[Len(timers')] = <<T_button, "timer">>]_vars
    /\ [][(btn_pc # "wait_edge" /\ btn_pc' = "wait_edge") =>
            /\ posted' = posted
            /\ NOTIFY_LED' = NOTIFY_LED
            /\ \/ btn_pc = "off" /\ run_pc = "spawn_button" /\ Last(seen) = "ip"
               \/ btn_pc = "sleep" /\ Head(timers) = <<T_button, "timer">>]_vars
    /\ [](btn_pc = "sleep" <=> Settling(T_button))

\* C20 witness: the button task has posted twice, both posts were applied,
\* and the task sleeps after the second: an edge now finds nothing waiting.
C20_Witness ==
    /\ posted = <<"Button", "Button">>
    /\ pend_at = <<0, 0>>
    /\ Len(applied) = 2
    /\ btn_pc = "sleep"
    /\ ENABLED RisingEdgeUnarmed

====
